---- MODULE Spec2Model ----
(***************************************************************************)
(* The transform-and-load pipeline of src/src/migrateData.ts as a state    *)
(* machine: module load (credential check), migrate() with its seven       *)
(* steps, the finally block and the process exit.  External calls (the     *)
(* relational store, object storage, HTTP download, the image codec, the   *)
(* file system) are nondeterministic in their outcome.  The export of one   *)
(* collection by src/src/services/fireStoreQueries.ts is a second, smaller *)
(* state machine on its own variables.                                     *)
(***************************************************************************)
EXTENDS Integers, Sequences, FiniteSets, TLC

\* ------------------------------------------------------------------ bounds
MaxSpaces == 2      \* records in study-rooms.json
MaxRooms == 1       \* records in rooms.json
MaxImages == 2      \* image URLs over the two files together
MaxFaults == 1      \* failures of external calls in one run
MaxCalls == 2       \* calls of normalizeBuildingName made on their own
MaxDocs == 2        \* documents in the exported collection

\* ------------------------------------------------------------- JS values
NULL == 0
\* what buildingNameMap['constructor'] evaluates to: the inherited
\* Object.prototype.constructor, a function and not a string; the other
\* inherited members are functions or objects alike
FnObject == "[Function: Object]"
\* what a read of an absent property evaluates to
Undefined == "<undefined>"
IsJsString(v) == v # FnObject /\ v # Undefined
\* truthiness of a string-or-undefined value
Truthy(v) == v # "" /\ v # Undefined
\* the null a column holds
JsNull == "<null>"

\* ------------------------------------------------ building normalization
buildingNameMap ==
  [n \in {"Peters", "Peters Building", "Lazaridis Hall", "Science Building",
          "Science & Research", "Dr. Alvin Woods Building",
          "Fred Nichols Campus Center", "Fred Nichols Campus Centre",
          "Schlegel", "Schlegel Building", "Bricker Academic Building",
          "University Library", "Arts", "Arts Building", "MLU"} |->
     CASE n = "Peters" -> "Peters Building"
       [] n = "Science & Research" -> "Science Building"
       [] n = "Fred Nichols Campus Centre" -> "Fred Nichols Campus Center"
       [] n = "Schlegel" -> "Schlegel Building"
       [] n = "Arts" -> "Arts Building"
       [] n = "MLU" -> "Martin Luther University College"
       [] OTHER -> n]

\* members every object literal inherits from Object.prototype
ObjectPrototypeKeys ==
  {"constructor", "toString", "valueOf", "hasOwnProperty", "__proto__"}

\* a property read on an object literal falls back to Object.prototype
ProtoLookup(name) ==
  IF name \in ObjectPrototypeKeys THEN FnObject ELSE Undefined

MapRead(name) ==
  IF name \in DOMAIN buildingNameMap THEN buildingNameMap[name]
  ELSE ProtoLookup(name)

normalizeBuildingNameIdentity(name) == name

normalizeBuildingName(name) ==
  IF Truthy(MapRead(name)) THEN MapRead(name) ELSE name

\* ------------------------------------------------------------- the inputs
\* the building names of the two files: an alias of the table and an empty
\* name; the alias's canonical name and a name the table does not hold
StudyRoomBuildings == {"Peters", ""}
RoomBuildings == {"Peters Building", "Annex"}

\* the names of the files that are migrated twice
RerunStudyRoomBuildings == {"Peters"}
RerunRoomBuildings == {"Annex"}

\* the image lists a file of n records can carry, MaxImages URLs in all
RECURSIVE ImageCounts(_, _)
ImageCounts(n, budget) ==
  IF n = 0 THEN {<< >>}
  ELSE UNION {{<<k>> \o rest : rest \in ImageCounts(n - 1, budget - k)} :
              k \in 0..budget}

\* room.information of a record of rooms.json: the four capability values,
\* Undefined where the block lacks the key
Information(a, p, w, j) ==
  [block |-> TRUE, av_inputs |-> a, pc |-> p, whiteboard |-> w,
   projector |-> j]

\* a record that has no information block at all
NoInformation ==
  [block |-> FALSE, av_inputs |-> Undefined, pc |-> Undefined,
   whiteboard |-> Undefined, projector |-> Undefined]

\* the space type and the capability block of the records where they do
\* not matter
PlainSpaceTypes == {"quiet"}
PlainInformations == {Information("yes", "yes", "yes", "yes")}

\* space types: a tag, the empty string, no spaceType field
SpaceTypes == {"quiet", "", Undefined}

\* capability blocks: all flags "yes"; flags that are "no", "Yes", empty
\* or missing next to flags that are "yes"; no block
Informations ==
  {Information("yes", "yes", "yes", "yes"),
   Information("yes", "no", Undefined, "Yes"),
   Information(Undefined, "yes", "", "no"),
   NoInformation}

\* the files an export can have left: record ids are document ids
StudyRoomFiles(max, budget, names, spaceTypes) ==
  UNION {{[i \in 1..n |-> [id |-> i, building |-> b[i], images |-> c[i],
                           spaceType |-> t[i]]] :
            b \in [1..n -> names], c \in ImageCounts(n, budget),
            t \in [1..n -> spaceTypes]} :
         n \in 0..max}

RoomFiles(max, budget, names, informations) ==
  UNION {{[i \in 1..n |-> [id |-> i, building |-> b[i], images |-> c[i],
                           information |-> f[i]]] :
            b \in [1..n -> names], c \in ImageCounts(n, budget),
            f \in [1..n -> informations]} :
         n \in 0..max}

\* ------------------------------------------------------ destination store
Tables == {"photo", "studySpot", "lectureHall", "building", "university"}

EmptyDb == [t \in Tables |-> {}]

StudySpotsPathRenumbered(universityId, studySpotId, i) ==
  [universityId |-> universityId, kind |-> "study-spots",
   entityId |-> studySpotId, index |-> 0]

StudySpotsPath(universityId, studySpotId, i) ==
  [universityId |-> universityId, kind |-> "study-spots",
   entityId |-> studySpotId, index |-> i]

LectureHallsPath(universityId, lectureHallId, i) ==
  [universityId |-> universityId, kind |-> "lecture-halls",
   entityId |-> lectureHallId, index |-> i]

PublicUrl(storagePath) == [bucket |-> "occupeye-photos", path |-> storagePath]

\* the store before the run: the rows an earlier complete run has left
PreExisting ==
  [university |-> {[id |-> 1, name |-> "Wilfrid Laurier University"]},
   building |-> {[id |-> 2, name |-> "Peters Building", universityId |-> 1]},
   studySpot |-> {[id |-> 3, buildingId |-> 2, spaceType |-> "quiet"]},
   lectureHall |-> {[id |-> 4, buildingId |-> 2, hasAvInputs |-> TRUE,
                     hasPc |-> TRUE, hasWhiteboard |-> TRUE,
                     hasProjector |-> TRUE]},
   photo |-> {[id |-> 5, storagePath |-> StudySpotsPath(1, 3, 0),
               url |-> PublicUrl(StudySpotsPath(1, 3, 0)),
               studySpotId |-> 3, lectureHallId |-> NULL],
              [id |-> 6, storagePath |-> LectureHallsPath(1, 4, 0),
               url |-> PublicUrl(LectureHallsPath(1, 4, 0)),
               studySpotId |-> NULL, lectureHallId |-> 4]}]

\* the identifiers 1..6 are taken
FirstFreeId == 1 + Cardinality(UNION {PreExisting[t] : t \in Tables})

PreExistingObjects == {StudySpotsPath(1, 3, 0), LectureHallsPath(1, 4, 0)}

Ids(rows) == {r.id : r \in rows}

\* --------------------------------------------------------------- migrate()
MigrateStepsSwapped ==
  <<"clearExistingData", "ensureStorageBucket", "createUniversity",
    "createBuildings", "migrateLectureHalls", "migrateStudySpots",
    "processPhotos">>

MigrateSteps ==
  <<"clearExistingData", "ensureStorageBucket", "createUniversity",
    "createBuildings", "migrateStudySpots", "migrateLectureHalls",
    "processPhotos">>

StepIndex(s) == CHOOSE i \in 1..Len(MigrateSteps) : MigrateSteps[i] = s

StepAfterNoFinally(s) ==
  IF StepIndex(s) = Len(MigrateSteps) THEN "exited"
  ELSE MigrateSteps[StepIndex(s) + 1]

\* where control goes when step s returns normally
StepAfter(s) ==
  IF StepIndex(s) = Len(MigrateSteps) THEN "finally"
  ELSE MigrateSteps[StepIndex(s) + 1]

ClearOrderPhotosKept == <<"studySpot", "lectureHall", "building", "university">>

ClearOrderParentFirst ==
  <<"photo", "building", "studySpot", "lectureHall", "university">>

ClearOrder == <<"photo", "studySpot", "lectureHall", "building", "university">>

VARIABLES
  supabaseKey,    \* is one of the three credential variables set
  studyRooms,     \* content of data/collections/study-rooms.json
  rooms,          \* content of data/collections/rooms.json
  db,             \* the relational store, table name -> rows
  nextId,         \* the store's identifier generator
  bucketExists,   \* does the bucket occupeye-photos exist
  objects,        \* paths of the objects in the bucket
  pc,             \* position of the process: a step of migrate() or load,
                  \* summary, finally, exit, exited
  at,             \* position inside the step: entry, loop, images, ...
  clearIdx,       \* next deleteMany of clearExistingData
  universityId, buildingNames, buildingMap, studySpotMap, lectureHallMap,
  bi, ri, ii,     \* loop positions: building, record, image
  stats,          \* the module-level stats object
  fatal,          \* the step whose error migrate() rethrows, or "none"
  disconnects,    \* calls of prisma.$disconnect() in this run
  exitCode,       \* -1 while the process runs
  faults,         \* per-item failures injected in this run
  run,            \* 1 for the first invocation, 2 for the second
  log, cursor,    \* outcomes of the external calls of run 1, replayed in run 2
  started, finished,   \* history: the steps of this run begun / returned
  origin,         \* history: row id -> the run and source item it came from
  imageLog,       \* history: the images processed in this run, with outcome
  db0,            \* history: the store when this run started
  counts1,        \* history: the row counts when run 1 ended
  calls,          \* history: the calls of normalizeBuildingName made on
                  \* their own, each with its argument and its result
  collection,     \* the documents of the exported Firestore collection
  fetched,        \* what getCollectionData has returned
  fs,             \* the output directory and the file <collection>.json
  fs0,            \* history: fs when the export started
  exportPc        \* position of exportCollectionToJson

vars == <<supabaseKey, studyRooms, rooms, db, nextId, bucketExists, objects,
          pc, at, clearIdx, universityId, buildingNames, buildingMap,
          studySpotMap, lectureHallMap, bi, ri, ii, stats, fatal,
          disconnects, exitCode, faults, run, log, cursor, started, finished,
          origin, imageLog, db0, counts1, calls, collection, fetched, fs,
          fs0, exportPc>>

inputVars == <<supabaseKey, studyRooms, rooms>>
storeVars == <<db, nextId, origin>>
storageVars == <<bucketExists, objects, imageLog>>
localVars == <<universityId, buildingNames, buildingMap, studySpotMap,
               lectureHallMap>>
loopVars == <<bi, ri, ii>>
histVars == <<db0, counts1>>
ctlVars == <<pc, at, started, finished, fatal>>
exportVars == <<collection, fetched, fs, fs0, exportPc>>
\* what the migrate process never touches
sideVars == <<calls, exportVars>>
\* what only the migrate process touches
migrateVars == <<inputVars, storeVars, storageVars, localVars, loopVars,
                 histVars, ctlVars, clearIdx, stats, disconnects, exitCode,
                 faults, run, log, cursor>>

EmptyMap == [k \in {} |-> NULL]

InitStats ==
  [university |-> 0, buildings |-> 0, studySpots |-> 0, lectureHalls |-> 0,
   photos |-> 0, errors |-> << >>]

RowCounts(d) == [t \in Tables |-> Cardinality(d[t])]

\* the process-local state of a freshly started process
FreshProcess ==
  /\ pc = "load" /\ at = "entry"
  /\ clearIdx = 1
  /\ universityId = NULL
  /\ buildingNames = << >>
  /\ buildingMap = EmptyMap
  /\ studySpotMap = EmptyMap
  /\ lectureHallMap = EmptyMap
  /\ bi = 1 /\ ri = 1 /\ ii = 0
  /\ stats = InitStats
  /\ fatal = "none"
  /\ disconnects = 0
  /\ exitCode = -1
  /\ faults = 0
  /\ started = << >> /\ finished = << >>
  /\ imageLog = {}

\* the file system before anything was exported
NoFile == [dir |-> FALSE, exists |-> FALSE, content |-> << >>]

\* no export is under way
NoExport ==
  /\ collection = << >> /\ fetched = << >>
  /\ fs = NoFile /\ fs0 = NoFile
  /\ exportPc = "idle"

\* nothing but the migrate process is running
NoSideActivity == calls = << >> /\ NoExport

\* the environment of a run and the state of its process, the two files
\* apart
MigrateStart ==
  /\ supabaseKey \in BOOLEAN
  /\ db = PreExisting
  /\ nextId = FirstFreeId
  /\ bucketExists \in BOOLEAN
  /\ objects = PreExistingObjects
  /\ origin = [i \in Ids(UNION {PreExisting[t] : t \in Tables}) |->
                 [run |-> 0, ds |-> "none", rec |-> 0, img |-> 0]]
  /\ FreshProcess
  /\ run = 1 /\ log = << >> /\ cursor = 1
  /\ db0 = db
  /\ counts1 = RowCounts(EmptyDb)

MigrateInit(studyRoomNames, roomNames, spaceTypes, informations) ==
  /\ \E cs \in ImageCounts(2, MaxImages) :
       /\ studyRooms \in StudyRoomFiles(MaxSpaces, cs[1], studyRoomNames,
                                        spaceTypes)
       /\ rooms \in RoomFiles(MaxRooms, cs[2], roomNames, informations)
  /\ MigrateStart

InitWith(studyRoomNames, roomNames) ==
  /\ NoSideActivity
  /\ MigrateInit(studyRoomNames, roomNames, PlainSpaceTypes,
                 PlainInformations)

\* the migrate command before it is invoked
MigrateIdle ==
  /\ supabaseKey = TRUE /\ bucketExists = TRUE
  /\ MigrateInit({}, {}, {}, {})

Init == InitWith(StudyRoomBuildings, RoomBuildings)

InitTwice == InitWith(RerunStudyRoomBuildings, RerunRoomBuildings)

\* ------------------------------------------------------------ small helpers
MapGet(m, k) == IF k \in DOMAIN m THEN m[k] ELSE NULL

MapSet(m, k, v) == [x \in DOMAIN m \cup {k} |-> IF x = k THEN v ELSE m[x]]

PushErrorDropped(errors, e) == errors

\* stats.errors.push(errorMsg)
PushError(errors, e) == Append(errors, e)

\* an error message: what failed, for which item, and the error's own text
Err(op, rec, img, cause) == [op |-> op, rec |-> rec, img |-> img, cause |-> cause]

Origin(ds, rec, img) == [run |-> run, ds |-> ds, rec |-> rec, img |-> img]

\* the outcomes an external call can have: free in the first run, the logged
\* one when the second run repeats the first
Draw(S) == IF run = 1 THEN S ELSE {log[cursor]}

Logged(o) ==
  /\ log' = IF run = 1 THEN Append(log, o) ELSE log
  /\ cursor' = IF run = 1 THEN cursor ELSE cursor + 1

NotLogged == UNCHANGED <<log, cursor>>

\* a failure is injected only while the budget lasts; the error that is
\* being propagated counts as one
OrFail(S) == IF faults + (IF fatal = "none" THEN 0 ELSE 1) < MaxFaults
             THEN S ELSE {}

Counted(o) == faults' = IF o = "ok" THEN faults ELSE faults + 1

\* control: the step returns, throws, or goes on
Returns(step) ==
  /\ finished' = Append(finished, step)
  /\ pc' = StepAfter(step)
  /\ at' = "entry"
  /\ started' = IF StepAfter(step) = "finally" THEN started
                ELSE Append(started, StepAfter(step))
  /\ UNCHANGED fatal

ThrowsSwallowed(step) ==
  /\ fatal' = fatal
  /\ pc' = "finally"
  /\ at' = "entry"
  /\ UNCHANGED <<started, finished>>

Throws(step) ==
  /\ fatal' = step
  /\ pc' = "finally"
  /\ at' = "entry"
  /\ UNCHANGED <<started, finished>>

GoesOn(where) ==
  /\ at' = where
  /\ UNCHANGED <<pc, started, finished, fatal>>

\* ---------------------------------------------------------- module load
CredentialMissingIgnored == FALSE

\* if (!supabaseKey)
CredentialMissing == ~supabaseKey

LoadModule ==
  /\ pc = "load"
  /\ IF CredentialMissing
       THEN /\ exitCode' = 1
            /\ pc' = "exited"
            /\ counts1' = IF run = 1 THEN RowCounts(db) ELSE counts1
            /\ UNCHANGED started
       ELSE /\ pc' = MigrateSteps[1]
            /\ started' = Append(started, MigrateSteps[1])
            /\ UNCHANGED <<exitCode, counts1>>
  /\ NotLogged
  /\ UNCHANGED sideVars
  /\ UNCHANGED <<inputVars, storeVars, storageVars, localVars, loopVars,
                 db0, at, finished, fatal, clearIdx, stats, disconnects,
                 faults, run>>

\* ---------------------------------------------------- clearExistingData
\* one deleteMany per step, in ClearOrder
ClearExistingData ==
  /\ pc = "clearExistingData"
  /\ \E o \in Draw({"ok"} \cup OrFail({"fail"})) :
       /\ Logged(o)
       /\ IF o = "ok"
            THEN /\ db' = [db EXCEPT ![ClearOrder[clearIdx]] = {}]
                 /\ IF clearIdx = Len(ClearOrder)
                      THEN Returns("clearExistingData") /\ UNCHANGED clearIdx
                      ELSE GoesOn("entry") /\ clearIdx' = clearIdx + 1
            ELSE /\ Throws("clearExistingData")
                 /\ UNCHANGED <<db, clearIdx>>
  /\ UNCHANGED sideVars
  /\ UNCHANGED <<inputVars, nextId, origin, storageVars, localVars, loopVars,
                 histVars, stats, disconnects, exitCode, faults, run>>

\* -------------------------------------------------- ensureStorageBucket
EnsureStorageBucket ==
  /\ pc = "ensureStorageBucket"
  /\ \E o \in Draw({"ok"}
                   \cup OrFail({"listFail"}
                                \cup (IF bucketExists THEN {}
                                      ELSE {"createFail"}))) :
       /\ Logged(o)
       /\ IF o = "ok"
            THEN bucketExists' = TRUE /\ Returns("ensureStorageBucket")
            ELSE UNCHANGED bucketExists /\ Throws("ensureStorageBucket")
  /\ UNCHANGED sideVars
  /\ UNCHANGED <<inputVars, storeVars, objects, imageLog, localVars, loopVars,
                 histVars, clearIdx, stats, disconnects, exitCode, faults,
                 run>>

\* ------------------------------------------------------ createUniversity
CreateUniversity ==
  /\ pc = "createUniversity"
  /\ \E o \in Draw({"ok"} \cup OrFail({"fail"})) :
       /\ Logged(o)
       /\ IF o = "ok"
            THEN /\ db' = [db EXCEPT !.university = @ \cup
                     {[id |-> nextId, name |-> "Wilfrid Laurier University"]}]
                 /\ nextId' = nextId + 1
                 /\ origin' = MapSet(origin, nextId, Origin("none", 0, 0))
                 /\ universityId' = nextId
                 /\ stats' = [stats EXCEPT !.university = 1]
                 /\ Returns("createUniversity")
            ELSE /\ Throws("createUniversity")
                 /\ UNCHANGED <<storeVars, universityId, stats>>
  /\ UNCHANGED sideVars
  /\ UNCHANGED <<inputVars, storageVars, buildingNames, buildingMap,
                 studySpotMap, lectureHallMap, loopVars, histVars, clearIdx,
                 disconnects, exitCode, faults, run>>

\* ------------------------------------------------------- createBuildings
SeqHasNever(s, v) == FALSE

\* Set.prototype.has, on the insertion-ordered content of the Set
SeqHas(s, v) == \E i \in 1..Len(s) : s[i] = v

\* buildingNames.add(...) over the records of one file, in file order; a Set
\* keeps insertion order and ignores a value it already holds
RECURSIVE AddBuildingNames(_, _)
AddBuildingNames(names, records) ==
  IF records = << >> THEN names
  ELSE LET room == Head(records)
           n == normalizeBuildingName(room.building)
       IN AddBuildingNames(
            IF Truthy(room.building) /\ ~SeqHas(names, n)
              THEN Append(names, n) ELSE names,
            Tail(records))

ExtractBuildingNames(sr, r) == AddBuildingNames(AddBuildingNames(<< >>, sr), r)

CreateBuildingsLoad ==
  /\ pc = "createBuildings" /\ at = "entry"
  /\ \E o \in Draw({"ok"} \cup OrFail({"studyRoomsUnreadable",
                                         "roomsUnreadable"})) :
       /\ Logged(o)
       /\ IF o = "ok"
            THEN /\ buildingNames' = ExtractBuildingNames(studyRooms, rooms)
                 /\ buildingMap' = EmptyMap
                 /\ bi' = 1
                 /\ GoesOn("loop")
            ELSE /\ Throws("createBuildings")
                 /\ UNCHANGED <<buildingNames, buildingMap, bi>>
  /\ UNCHANGED sideVars
  /\ UNCHANGED <<inputVars, storeVars, storageVars, universityId,
                 studySpotMap, lectureHallMap, ri, ii, histVars, clearIdx,
                 stats, disconnects, exitCode, faults, run>>

\* prisma.building.create: a name that is not a string is rejected by the
\* client's argument validation
BuildingCreateOutcomes(name) ==
  IF IsJsString(name) THEN {"ok"} \cup OrFail({"fail"}) ELSE {"invalid"}

BuildingMapSetSkipped(map, name, id) == map

\* buildingMap.set(buildingName, building.id)
BuildingMapSet(map, name, id) == MapSet(map, name, id)

CreateBuilding ==
  /\ pc = "createBuildings" /\ at = "loop" /\ bi <= Len(buildingNames)
  /\ LET buildingName == buildingNames[bi] IN
     \E o \in Draw(BuildingCreateOutcomes(buildingName)) :
       /\ Logged(o)
       /\ Counted(IF o = "invalid" THEN "ok" ELSE o)
       /\ IF o = "ok"
            THEN /\ db' = [db EXCEPT !.building = @ \cup
                     {[id |-> nextId, name |-> buildingName,
                       universityId |-> universityId]}]
                 /\ nextId' = nextId + 1
                 /\ origin' = MapSet(origin, nextId, Origin("building", bi, 0))
                 /\ buildingMap' = BuildingMapSet(buildingMap, buildingName,
                                                  nextId)
                 /\ stats' = [stats EXCEPT !.buildings = @ + 1]
            ELSE /\ stats' = [stats EXCEPT
                       !.errors = PushError(@, Err("building", bi, 0, o))]
                 /\ UNCHANGED <<storeVars, buildingMap>>
  /\ bi' = bi + 1
  /\ GoesOn("loop")
  /\ UNCHANGED sideVars
  /\ UNCHANGED <<inputVars, storageVars, universityId, buildingNames,
                 studySpotMap, lectureHallMap, ri, ii, histVars, clearIdx,
                 disconnects, exitCode, run>>

CreateBuildingsReturn ==
  /\ pc = "createBuildings" /\ at = "loop" /\ bi > Len(buildingNames)
  /\ Returns("createBuildings")
  /\ NotLogged
  /\ UNCHANGED sideVars
  /\ UNCHANGED <<inputVars, storeVars, storageVars, localVars, loopVars,
                 histVars, clearIdx, stats, disconnects, exitCode, faults,
                 run>>

\* ----------------------------------------------------- migrateStudySpots
MigrateStudySpotsLoad ==
  /\ pc = "migrateStudySpots" /\ at = "entry"
  /\ \E o \in Draw({"ok"} \cup OrFail({"studyRoomsUnreadable"})) :
       /\ Logged(o)
       /\ IF o = "ok"
            THEN /\ studySpotMap' = EmptyMap
                 /\ ri' = 1
                 /\ GoesOn("loop")
            ELSE /\ Throws("migrateStudySpots")
                 /\ UNCHANGED <<studySpotMap, ri>>
  /\ UNCHANGED sideVars
  /\ UNCHANGED <<inputVars, storeVars, storageVars, universityId,
                 buildingNames, buildingMap, lectureHallMap, bi, ii, histVars,
                 clearIdx, stats, disconnects, exitCode, faults, run>>

BuildingLookupAny(map, name) ==
  IF name \in DOMAIN map THEN map[name]
  ELSE IF DOMAIN map = {} THEN NULL
  ELSE map[CHOOSE k \in DOMAIN map : TRUE]

\* buildingMap.get(normalizedBuilding)
BuildingLookup(map, name) == MapGet(map, name)

\* the outcomes of one record: the lookup failing is decided by the data, the
\* create by the store
RecordOutcomes(buildingId) ==
  IF buildingId = NULL THEN {"notFound"} ELSE {"ok"} \cup OrFail({"fail"})

SpaceTypeStoredAsIs(v) == IF v = Undefined THEN JsNull ELSE v

\* spaceType: room.spaceType || null
SpaceTypeStored(v) == IF Truthy(v) THEN v ELSE JsNull

MigrateStudySpot ==
  /\ pc = "migrateStudySpots" /\ at = "loop" /\ ri <= Len(studyRooms)
  /\ LET room == studyRooms[ri]
         normalizedBuilding == normalizeBuildingName(room.building)
         buildingId == BuildingLookup(buildingMap, normalizedBuilding)
     IN \E o \in Draw(RecordOutcomes(buildingId)) :
          /\ Logged(o)
          /\ Counted(IF o = "notFound" THEN "ok" ELSE o)
          /\ IF o = "ok"
               THEN /\ db' = [db EXCEPT !.studySpot = @ \cup
                        {[id |-> nextId, buildingId |-> buildingId,
                          spaceType |-> SpaceTypeStored(room.spaceType)]}]
                    /\ nextId' = nextId + 1
                    /\ origin' = MapSet(origin, nextId,
                                        Origin("study-rooms", ri, 0))
                    /\ studySpotMap' = MapSet(studySpotMap, room.id, nextId)
                    /\ stats' = [stats EXCEPT !.studySpots = @ + 1]
               ELSE /\ stats' = [stats EXCEPT
                          !.errors = PushError(@, Err("studySpot", ri, 0, o))]
                    /\ UNCHANGED <<storeVars, studySpotMap>>
  /\ ri' = ri + 1
  /\ GoesOn("loop")
  /\ UNCHANGED sideVars
  /\ UNCHANGED <<inputVars, storageVars, universityId, buildingNames,
                 buildingMap, lectureHallMap, bi, ii, histVars, clearIdx,
                 disconnects, exitCode, run>>

MigrateStudySpotsReturn ==
  /\ pc = "migrateStudySpots" /\ at = "loop" /\ ri > Len(studyRooms)
  /\ Returns("migrateStudySpots")
  /\ NotLogged
  /\ UNCHANGED sideVars
  /\ UNCHANGED <<inputVars, storeVars, storageVars, localVars, loopVars,
                 histVars, clearIdx, stats, disconnects, exitCode, faults,
                 run>>

\* --------------------------------------------------- migrateLectureHalls
MigrateLectureHallsLoad ==
  /\ pc = "migrateLectureHalls" /\ at = "entry"
  /\ \E o \in Draw({"ok"} \cup OrFail({"roomsUnreadable"})) :
       /\ Logged(o)
       /\ IF o = "ok"
            THEN /\ lectureHallMap' = EmptyMap
                 /\ ri' = 1
                 /\ GoesOn("loop")
            ELSE /\ Throws("migrateLectureHalls")
                 /\ UNCHANGED <<lectureHallMap, ri>>
  /\ UNCHANGED sideVars
  /\ UNCHANGED <<inputVars, storeVars, storageVars, universityId,
                 buildingNames, buildingMap, studySpotMap, bi, ii, histVars,
                 clearIdx, stats, disconnects, exitCode, faults, run>>

IsYesAnyCase(v) == v \in {"yes", "Yes"}

\* room.information.<key> === 'yes'
IsYes(v) == v = "yes"

\* the data of prisma.lectureHall.create
HallRow(id, buildingId, information) ==
  [id |-> id, buildingId |-> buildingId,
   hasAvInputs |-> IsYes(information.av_inputs),
   hasPc |-> IsYes(information.pc),
   hasWhiteboard |-> IsYes(information.whiteboard),
   hasProjector |-> IsYes(information.projector)]

\* the outcomes of one record of rooms.json: reading a key of an absent
\* information block throws a TypeError before the store is called
HallOutcomes(buildingId, information) ==
  IF buildingId # NULL /\ ~information.block THEN {"typeError"}
  ELSE RecordOutcomes(buildingId)

MigrateLectureHall ==
  /\ pc = "migrateLectureHalls" /\ at = "loop" /\ ri <= Len(rooms)
  /\ LET room == rooms[ri]
         normalizedBuilding == normalizeBuildingName(room.building)
         buildingId == BuildingLookup(buildingMap, normalizedBuilding)
     IN \E o \in Draw(HallOutcomes(buildingId, room.information)) :
          /\ Logged(o)
          /\ Counted(IF o \in {"notFound", "typeError"} THEN "ok" ELSE o)
          /\ IF o = "ok"
               THEN /\ db' = [db EXCEPT !.lectureHall = @ \cup
                        {HallRow(nextId, buildingId, room.information)}]
                    /\ nextId' = nextId + 1
                    /\ origin' = MapSet(origin, nextId, Origin("rooms", ri, 0))
                    /\ lectureHallMap' = MapSet(lectureHallMap, room.id, nextId)
                    /\ stats' = [stats EXCEPT !.lectureHalls = @ + 1]
               ELSE /\ stats' = [stats EXCEPT
                          !.errors = PushError(@, Err("lectureHall", ri, 0, o))]
                    /\ UNCHANGED <<storeVars, lectureHallMap>>
  /\ ri' = ri + 1
  /\ GoesOn("loop")
  /\ UNCHANGED sideVars
  /\ UNCHANGED <<inputVars, storageVars, universityId, buildingNames,
                 buildingMap, studySpotMap, bi, ii, histVars, clearIdx,
                 disconnects, exitCode, run>>

MigrateLectureHallsReturn ==
  /\ pc = "migrateLectureHalls" /\ at = "loop" /\ ri > Len(rooms)
  /\ Returns("migrateLectureHalls")
  /\ NotLogged
  /\ UNCHANGED sideVars
  /\ UNCHANGED <<inputVars, storeVars, storageVars, localVars, loopVars,
                 histVars, clearIdx, stats, disconnects, exitCode, faults,
                 run>>

\* --------------------------------------------------------- processPhotos
ImageOutcomes == {"ok"} \cup OrFail({"download", "optimize", "upload", "record"})

\* the object is in the bucket once uploadToSupabase has returned
UploadDone(o) == o \in {"ok", "record"}

RowInsertedBeforeUpload(o) == o \in {"ok", "upload"}

RowInsertedFirst(o) == o \in {"ok", "download", "optimize", "upload"}

\* prisma.photo.create is the last call of the try block: the row exists
\* when all four calls succeeded
RowInserted(o) == o = "ok"

ProcessPhotosLoad ==
  /\ pc = "processPhotos" /\ at = "entry"
  /\ \E o \in Draw({"ok"} \cup OrFail({"studyRoomsUnreadable"})) :
       /\ Logged(o)
       /\ IF o = "ok"
            THEN ri' = 1 /\ ii' = 0 /\ GoesOn("loop")
            ELSE Throws("processPhotos") /\ UNCHANGED <<ri, ii>>
  /\ UNCHANGED sideVars
  /\ UNCHANGED <<inputVars, storeVars, storageVars, localVars, bi, histVars,
                 clearIdx, stats, disconnects, exitCode, faults, run>>

\* the two continue statements at the top of the outer loop body
SkipsPhotosNever(room, map) == FALSE

SkipsPhotos(room, map) == room.images = 0 \/ MapGet(map, room.id) = NULL

StudySpotPhotosRecord ==
  /\ pc = "processPhotos" /\ at = "loop" /\ ri <= Len(studyRooms)
  /\ IF SkipsPhotos(studyRooms[ri], studySpotMap)
       THEN ri' = ri + 1 /\ GoesOn("loop")
       ELSE UNCHANGED ri /\ GoesOn("images")
  /\ ii' = 0
  /\ NotLogged
  /\ UNCHANGED sideVars
  /\ UNCHANGED <<inputVars, storeVars, storageVars, localVars, bi, histVars,
                 clearIdx, stats, disconnects, exitCode, faults, run>>

PhotoOwnerBoth(kind, entityId) ==
  [studySpotId |-> entityId, lectureHallId |-> entityId]

\* the owner columns of the row prisma.photo.create inserts
PhotoOwner(kind, entityId) ==
  IF kind = "study-spots"
    THEN [studySpotId |-> entityId, lectureHallId |-> NULL]
    ELSE [studySpotId |-> NULL, lectureHallId |-> entityId]

PhotoRow(id, storagePath, kind, entityId) ==
  [id |-> id, storagePath |-> storagePath, url |-> PublicUrl(storagePath),
   studySpotId |-> PhotoOwner(kind, entityId).studySpotId,
   lectureHallId |-> PhotoOwner(kind, entityId).lectureHallId]

\* one pass of the inner loop body for image ii of record ri of file ds
ProcessImage(ds, kind, storagePath, entityId, errOp) ==
  \E o \in Draw(ImageOutcomes) :
    /\ Logged(o)
    /\ Counted(o)
    /\ objects' = IF UploadDone(o) THEN objects \cup {storagePath} ELSE objects
    /\ imageLog' = imageLog \cup
                      {[ds |-> ds, rec |-> ri, img |-> ii, outcome |-> o]}
    /\ IF RowInserted(o)
         THEN /\ db' = [db EXCEPT !.photo = @ \cup
                  {PhotoRow(nextId, storagePath, kind, entityId)}]
              /\ nextId' = nextId + 1
              /\ origin' = MapSet(origin, nextId, Origin(ds, ri, ii))
              /\ stats' = [stats EXCEPT !.photos = @ + 1]
         ELSE /\ stats' = [stats EXCEPT
                    !.errors = PushError(@, Err(errOp, ri, ii, o))]
              /\ UNCHANGED storeVars

NextImageAgain(n) == ii' = ii /\ UNCHANGED ri /\ GoesOn(at)

\* i++ and the loop test; past the last image the outer loop goes on
NextImage(n) ==
  IF ii + 1 < n
    THEN ii' = ii + 1 /\ UNCHANGED ri /\ GoesOn(at)
    ELSE ii' = 0 /\ ri' = ri + 1
         /\ GoesOn(IF at = "images" THEN "loop" ELSE "loop2")

StudySpotPhoto ==
  /\ pc = "processPhotos" /\ at = "images"
  /\ LET room == studyRooms[ri]
         studySpotId == MapGet(studySpotMap, room.id)
     IN /\ ProcessImage("study-rooms", "study-spots",
                        StudySpotsPath(universityId, studySpotId, ii),
                        studySpotId, "studySpotPhoto")
        /\ NextImage(room.images)
  /\ UNCHANGED sideVars
  /\ UNCHANGED <<inputVars, bucketExists, localVars, bi, histVars, clearIdx,
                 disconnects, exitCode, run>>

ProcessPhotosRoomsLoad ==
  /\ pc = "processPhotos" /\ at = "loop" /\ ri > Len(studyRooms)
  /\ \E o \in Draw({"ok"} \cup OrFail({"roomsUnreadable"})) :
       /\ Logged(o)
       /\ IF o = "ok"
            THEN ri' = 1 /\ ii' = 0 /\ GoesOn("loop2")
            ELSE Throws("processPhotos") /\ UNCHANGED <<ri, ii>>
  /\ UNCHANGED sideVars
  /\ UNCHANGED <<inputVars, storeVars, storageVars, localVars, bi, histVars,
                 clearIdx, stats, disconnects, exitCode, faults, run>>

LectureHallPhotosRecord ==
  /\ pc = "processPhotos" /\ at = "loop2" /\ ri <= Len(rooms)
  /\ IF SkipsPhotos(rooms[ri], lectureHallMap)
       THEN ri' = ri + 1 /\ GoesOn("loop2")
       ELSE UNCHANGED ri /\ GoesOn("images2")
  /\ ii' = 0
  /\ NotLogged
  /\ UNCHANGED sideVars
  /\ UNCHANGED <<inputVars, storeVars, storageVars, localVars, bi, histVars,
                 clearIdx, stats, disconnects, exitCode, faults, run>>

LectureHallPhoto ==
  /\ pc = "processPhotos" /\ at = "images2"
  /\ LET room == rooms[ri]
         lectureHallId == MapGet(lectureHallMap, room.id)
     IN /\ ProcessImage("rooms", "lecture-halls",
                        LectureHallsPath(universityId, lectureHallId, ii),
                        lectureHallId, "lectureHallPhoto")
        /\ NextImage(room.images)
  /\ UNCHANGED sideVars
  /\ UNCHANGED <<inputVars, bucketExists, localVars, bi, histVars, clearIdx,
                 disconnects, exitCode, run>>

\* processPhotos returns; migrate() prints the summary of stats, which
\* changes nothing, and leaves its try block
ProcessPhotosReturn ==
  /\ pc = "processPhotos" /\ at = "loop2" /\ ri > Len(rooms)
  /\ Returns("processPhotos")
  /\ NotLogged
  /\ UNCHANGED sideVars
  /\ UNCHANGED <<inputVars, storeVars, storageVars, localVars, loopVars,
                 histVars, clearIdx, stats, disconnects, exitCode, faults,
                 run>>

\* -------------------------------------------------- finally, process exit
\* finally { await prisma.$disconnect() }: an error thrown here replaces the
\* one being propagated; then migrate().catch(... process.exit(1)), or the
\* event loop running empty, ends the process
Finally ==
  /\ pc = "finally"
  /\ \E o \in Draw({"ok"} \cup OrFail({"fail"})) :
       /\ Logged(o)
       /\ fatal' = IF o = "ok" THEN fatal ELSE "disconnect"
  /\ disconnects' = disconnects + 1
  /\ exitCode' = IF fatal' = "none" THEN 0 ELSE 1
  /\ pc' = "exited"
  /\ counts1' = IF run = 1 THEN RowCounts(db) ELSE counts1
  /\ UNCHANGED sideVars
  /\ UNCHANGED <<inputVars, storeVars, storageVars, localVars, loopVars, db0,
                 at, started, finished, clearIdx, stats, faults, run>>

\* the command is invoked a second time, on the same files, and every
\* external call ends as it did the first time
Rerun ==
  /\ pc = "exited" /\ run = 1
  /\ run' = 2
  /\ cursor' = 1
  /\ db0' = db
  /\ pc' = "load" /\ at' = "entry"
  /\ clearIdx' = 1
  /\ universityId' = NULL
  /\ buildingNames' = << >>
  /\ buildingMap' = EmptyMap
  /\ studySpotMap' = EmptyMap
  /\ lectureHallMap' = EmptyMap
  /\ bi' = 1 /\ ri' = 1 /\ ii' = 0
  /\ stats' = InitStats
  /\ fatal' = "none"
  /\ disconnects' = 0
  /\ exitCode' = -1
  /\ faults' = 0
  /\ started' = << >> /\ finished' = << >>
  /\ imageLog' = {}
  /\ UNCHANGED sideVars
  /\ UNCHANGED <<inputVars, storeVars, bucketExists, objects, log, counts1>>

Next ==
  \/ LoadModule
  \/ ClearExistingData
  \/ EnsureStorageBucket
  \/ CreateUniversity
  \/ CreateBuildingsLoad
  \/ CreateBuilding
  \/ CreateBuildingsReturn
  \/ MigrateStudySpotsLoad
  \/ MigrateStudySpot
  \/ MigrateStudySpotsReturn
  \/ MigrateLectureHallsLoad
  \/ MigrateLectureHall
  \/ MigrateLectureHallsReturn
  \/ ProcessPhotosLoad
  \/ StudySpotPhotosRecord
  \/ StudySpotPhoto
  \/ ProcessPhotosRoomsLoad
  \/ LectureHallPhotosRecord
  \/ LectureHallPhoto
  \/ ProcessPhotosReturn
  \/ Finally

Spec == Init /\ [][Next]_vars

NextTwice == Next \/ Rerun

SpecTwice == InitTwice /\ [][NextTwice]_vars

\* the files whose records all name one building of the table and differ in
\* their space type, or in their capability block
OneBuilding == {"Peters"}

InitSpaceTypes ==
  /\ NoSideActivity
  /\ MigrateInit(OneBuilding, OneBuilding, SpaceTypes, PlainInformations)

SpecSpaceTypes == InitSpaceTypes /\ [][Next]_vars

InitCapabilities ==
  /\ NoSideActivity
  /\ MigrateInit(OneBuilding, OneBuilding, PlainSpaceTypes, Informations)

SpecCapabilities == InitCapabilities /\ [][Next]_vars

\* the files of an export in which documents carry a data field id: the id
\* of a record is then that field's value (getCollectionData spreads the
\* data over the document id), and two records can carry the same one
SourceIds == {1, 2}

WithIds(file, ids) == [i \in DOMAIN file |-> [file[i] EXCEPT !.id = ids[i]]]

InitSourceIds ==
  /\ NoSideActivity
  /\ \E cs \in ImageCounts(2, MaxImages) :
       /\ \E f \in StudyRoomFiles(MaxSpaces, cs[1], StudyRoomBuildings,
                                   PlainSpaceTypes) :
            \E ids \in [DOMAIN f -> SourceIds] : studyRooms = WithIds(f, ids)
       /\ \E f \in RoomFiles(MaxRooms, cs[2], OneBuilding,
                              PlainInformations) :
            \E ids \in [DOMAIN f -> SourceIds] : rooms = WithIds(f, ids)
  /\ MigrateStart

SpecSourceIds == InitSourceIds /\ [][Next]_vars

\* ---------------------------------------- normalizeBuildingName on its own
\* names the table does not hold, the empty name and near misses included
UnmappedNames == {"Annex", "", "peters", "Peters Building "}

\* the strings the function is called with
NormalizeArguments ==
  DOMAIN buildingNameMap \cup UnmappedNames \cup ObjectPrototypeKeys

InitNormalize == MigrateIdle /\ NoSideActivity

NormalizeCall ==
  /\ Len(calls) < MaxCalls
  /\ \E name \in NormalizeArguments :
       calls' = Append(calls, [name |-> name,
                               result |-> normalizeBuildingName(name)])
  /\ UNCHANGED <<migrateVars, exportVars>>

NextNormalize == NormalizeCall

SpecNormalize == InitNormalize /\ [][NextNormalize]_vars

\* ------------------------------------------- exportCollectionToJson(c, dir)
\* the store identifiers of the documents of the collection, by position
DocIds == <<"doc1", "doc2", "doc3", "doc4">>

\* what doc.data() can return: any of the fields id and name may be there
DocData ==
  {[k \in {} |-> ""],
   [k \in {"id"} |-> "legacy-7"],
   [k \in {"name"} |-> "Room A"],
   [k \in {"id", "name"} |-> IF k = "id" THEN "legacy-7" ELSE "Room A"]}

Collections ==
  UNION {{[i \in 1..n |-> [docId |-> DocIds[i], data |-> d[i]]] :
            d \in [1..n -> DocData]} :
         n \in 0..MaxDocs}

\* { id: doc.id, ...doc.data() }: a property spread later in the literal
\* replaces the value of an earlier one of the same name
Flattened(doc) ==
  [k \in {"id"} \cup DOMAIN doc.data |->
     IF k \in DOMAIN doc.data THEN doc.data[k] ELSE doc.docId]

\* JSON text as its sequence of tokens
Token(kind, key, value) == [kind |-> kind, key |-> key, value |-> value]

\* the keys of a flattened document in property order: id was set first
PropertyOrder(object) ==
  <<"id">> \o (IF "name" \in DOMAIN object THEN <<"name">> ELSE << >>)

StringifyObject(object) ==
  <<Token("{", "", "")>>
    \o [i \in 1..Len(PropertyOrder(object)) |->
          Token("pair", PropertyOrder(object)[i],
                object[PropertyOrder(object)[i]])]
    \o <<Token("}", "", "")>>

RECURSIVE StringifyElements(_)
StringifyElements(elements) ==
  IF elements = << >> THEN << >>
  ELSE StringifyObject(Head(elements)) \o StringifyElements(Tail(elements))

\* JSON.stringify(data, null, 2) of an array of flattened documents
JsonStringify(data) ==
  <<Token("[", "", "")>> \o StringifyElements(data) \o <<Token("]", "", "")>>

\* JSON.parse of such a text, as the migrate command reads it back
RECURSIVE ParseElements(_, _, _, _)
ParseElements(text, i, parsed, object) ==
  IF i > Len(text) THEN parsed
  ELSE CASE text[i].kind = "{" ->
              ParseElements(text, i + 1, parsed, [k \in {} |-> ""])
         [] text[i].kind = "pair" ->
              ParseElements(text, i + 1, parsed,
                            MapSet(object, text[i].key, text[i].value))
         [] text[i].kind = "}" ->
              ParseElements(text, i + 1, Append(parsed, object), object)
         [] OTHER -> ParseElements(text, i + 1, parsed, object)

JsonParse(text) == ParseElements(text, 1, << >>, [k \in {} |-> ""])

\* what an earlier export of a larger collection has left in the file
StaleContent ==
  JsonStringify([i \in 1..4 |-> [k \in {"id"} |-> DocIds[i]]])

\* the output directory and the file before the export
FileSystems ==
  {NoFile,
   [dir |-> TRUE, exists |-> FALSE, content |-> << >>],
   [dir |-> TRUE, exists |-> TRUE, content |-> StaleContent]}

InitExport ==
  /\ MigrateIdle
  /\ calls = << >>
  /\ collection \in Collections
  /\ fetched = << >>
  /\ fs \in FileSystems
  /\ fs0 = fs
  /\ exportPc = "getCollectionData"

\* db.collection(collectionName).get() and the map over snapshot.docs
GetCollectionData ==
  /\ exportPc = "getCollectionData"
  /\ \E o \in {"ok", "fail"} :
       IF o = "ok"
         THEN /\ fetched' = [i \in 1..Len(collection) |->
                               Flattened(collection[i])]
              /\ exportPc' = "saveToJson"
         ELSE /\ exportPc' = "failed"
              /\ UNCHANGED fetched
  /\ UNCHANGED <<migrateVars, calls, collection, fs, fs0>>

WriteFileAppended(old, text) == old \o text

\* fs.writeFileSync(filePath, text): the file holds the text and nothing else
WriteFileSync(old, text) == text

\* saveToJson(data, `${collectionName}.json`, outputDir): mkdirSync when the
\* directory is not there, then writeFileSync; a failed write can leave the
\* file as it was or cut short
SaveToJson ==
  /\ exportPc = "saveToJson"
  /\ \E o \in {"ok", "writeFail"} \cup (IF fs.dir THEN {} ELSE {"mkdirFail"}) :
       CASE o = "ok" ->
              /\ fs' = [dir |-> TRUE, exists |-> TRUE,
                        content |-> WriteFileSync(fs.content,
                                                  JsonStringify(fetched))]
              /\ exportPc' = "done"
         [] o = "mkdirFail" ->
              /\ UNCHANGED fs
              /\ exportPc' = "failed"
         [] o = "writeFail" ->
              /\ fs' \in {[fs EXCEPT !.dir = TRUE],
                           [dir |-> TRUE, exists |-> TRUE, content |-> << >>]}
              /\ exportPc' = "failed"
  /\ UNCHANGED <<migrateVars, calls, collection, fetched, fs0>>

NextExport == GetCollectionData \/ SaveToJson

SpecExport == InitExport /\ [][NextExport]_vars

\* ================================================================ claims
IsPrefix(s, t) == Len(s) <= Len(t) /\ \A i \in 1..Len(s) : s[i] = t[i]

Done(step) == \E i \in 1..Len(finished) : finished[i] = step

\* migrate() has left its try block, normally or by a throw: nothing is
\* created or appended after this point
AtEnd == pc = "finally"

ErrorsOf(op, rec) ==
  {k \in 1..Len(stats.errors) :
     stats.errors[k].op = op /\ stats.errors[k].rec = rec}

ErrorsOfImage(op, rec, img) ==
  {k \in ErrorsOf(op, rec) : stats.errors[k].img = img}

\* the rows of table t that this run created from record rec of file ds
RowsOf(t, ds, rec) ==
  {r \in db[t] : origin[r.id].run = run /\ origin[r.id].ds = ds
                 /\ origin[r.id].rec = rec}

ThisRun(rows) == {r \in rows : origin[r.id].run = run}

\* C1: the steps of migrate() begin in the fixed order clear, bucket,
\* university, buildings, spots, halls, photos; a step begins only when the
\* one before it has returned; the step that threw is the last one begun.
C1_StepOrder ==
  /\ IsPrefix(started,
              <<"clearExistingData", "ensureStorageBucket", "createUniversity",
                "createBuildings", "migrateStudySpots", "migrateLectureHalls",
                "processPhotos">>)
  /\ IsPrefix(finished, started)
  /\ Len(started) <= Len(finished) + 1
  /\ (pc \in {"clearExistingData", "ensureStorageBucket", "createUniversity",
              "createBuildings", "migrateStudySpots", "migrateLectureHalls",
              "processPhotos"}
        => /\ Len(started) = Len(finished) + 1
           /\ started[Len(started)] = pc)
  /\ (fatal \notin {"none", "disconnect"}
        => /\ Len(started) = Len(finished) + 1
           /\ started[Len(started)] = fatal
           /\ pc \in {"finally", "exited"})
  /\ (pc = "finally" /\ fatal = "none" => Len(finished) = 7)

C1_Witness ==
  /\ pc = "exited" /\ exitCode = 0
  /\ Len(finished) = 7
  /\ db.photo # {}

C1_WitnessFatal ==
  /\ pc = "exited" /\ fatal = "migrateStudySpots"
  /\ Len(started) = 5

\* C2 (as amended): at the end of a run in which a file's loop has ended, a
\* record of the file whose normalized
\* building name is no key of buildingMap has no row and exactly one error,
\* "not found"; every record whose name is a key has either its row and no
\* error, or no row and exactly one error, the store's rejection of its own
\* insert.
RecordSettled(t, ds, op, records, rec) ==
  LET resolved == normalizeBuildingName(records[rec].building)
                    \in DOMAIN buildingMap
      rows == RowsOf(t, ds, rec)
      errs == ErrorsOf(op, rec)
  IN IF resolved
       THEN \/ Cardinality(rows) = 1 /\ errs = {}
            \/ /\ rows = {} /\ Cardinality(errs) = 1
               /\ \A k \in errs : stats.errors[k].cause = "fail"
       ELSE /\ rows = {} /\ Cardinality(errs) = 1
            /\ \A k \in errs : stats.errors[k].cause = "notFound"

C2_UnresolvedIsolated ==
  /\ AtEnd /\ Done("migrateStudySpots") =>
       \A rec \in 1..Len(studyRooms) :
         RecordSettled("studySpot", "study-rooms", "studySpot", studyRooms, rec)
  /\ AtEnd /\ Done("migrateLectureHalls") =>
       \A rec \in 1..Len(rooms) :
         RecordSettled("lectureHall", "rooms", "lectureHall", rooms, rec)

\* C2 as stated: next to an unresolved record, which has no row and one
\* error, every other record whose building resolves is created
IsolatedAsStated(t, ds, op, records) ==
  \A rec \in 1..Len(records) :
    normalizeBuildingName(records[rec].building) \notin DOMAIN buildingMap =>
      /\ RowsOf(t, ds, rec) = {}
      /\ Cardinality(ErrorsOf(op, rec)) = 1
      /\ \A other \in 1..Len(records) \ {rec} :
           normalizeBuildingName(records[other].building) \in DOMAIN buildingMap
             => Cardinality(RowsOf(t, ds, other)) = 1

C2_Original ==
  /\ AtEnd /\ Done("migrateStudySpots") =>
       IsolatedAsStated("studySpot", "study-rooms", "studySpot", studyRooms)
  /\ AtEnd /\ Done("migrateLectureHalls") =>
       IsolatedAsStated("lectureHall", "rooms", "lectureHall", rooms)

\* an unresolved record before a resolved one, which is created after it
C2_Witness ==
  /\ AtEnd /\ Done("migrateLectureHalls")
  /\ Len(studyRooms) = 2
  /\ normalizeBuildingName(studyRooms[1].building) \notin DOMAIN buildingMap
  /\ Cardinality(ErrorsOf("studySpot", 1)) = 1
  /\ Cardinality(RowsOf("studySpot", "study-rooms", 2)) = 1
  /\ Len(rooms) = 1
  /\ normalizeBuildingName(rooms[1].building) \notin DOMAIN buildingMap
  /\ Cardinality(ErrorsOf("lectureHall", 1)) = 1

\* C3: at the end of a run whose photo stage has returned, for every record whose Spot/Hall
\* was created and whose n images failed at the positions F: the Photo rows
\* of the record are one per position of 0..n-1 outside F, the row of
\* position i has i in its storage path and the record's Spot/Hall as owner
\* directory, and the record has one error per position of F, none else.
PhotosSettled(ds, kind, op, records, map, rec) ==
  LET n == records[rec].images
      F == {e.img : e \in {x \in imageLog : x.ds = ds /\ x.rec = rec
                                            /\ x.outcome # "ok"}}
      rows == RowsOf("photo", ds, rec)
  IN records[rec].id \in DOMAIN map =>
       /\ Cardinality(rows) = n - Cardinality(F)
       /\ {origin[p.id].img : p \in rows} = (0..(n - 1)) \ F
       /\ \A p \in rows :
            /\ p.storagePath.index = origin[p.id].img
            /\ p.storagePath.kind = kind
            /\ p.storagePath.entityId = map[records[rec].id]
       /\ Cardinality(ErrorsOf(op, rec)) = Cardinality(F)
       /\ \A i \in 0..(n - 1) :
            Cardinality(ErrorsOfImage(op, rec, i)) = IF i \in F THEN 1 ELSE 0

C3_PartialPhotos ==
  AtEnd /\ Done("processPhotos") =>
    /\ \A rec \in 1..Len(studyRooms) :
         PhotosSettled("study-rooms", "study-spots", "studySpotPhoto",
                       studyRooms, studySpotMap, rec)
    /\ \A rec \in 1..Len(rooms) :
         PhotosSettled("rooms", "lecture-halls", "lectureHallPhoto",
                       rooms, lectureHallMap, rec)

\* two images, the first fails, the second is stored under position 1
C3_Witness ==
  /\ AtEnd /\ Done("processPhotos")
  /\ \E rec \in 1..Len(studyRooms) :
       /\ studyRooms[rec].images = 2
       /\ Cardinality(ErrorsOfImage("studySpotPhoto", rec, 0)) = 1
       /\ \E p \in RowsOf("photo", "study-rooms", rec) : p.storagePath.index = 1
       /\ Cardinality(RowsOf("photo", "study-rooms", rec)) = 1

\* C4 (as amended): at the end of a run in which createBuildings has
\* returned without a building error, the Building rows of the run carry exactly the normalized names of
\* the records, of both files, whose building name is not empty, each name
\* on one row.
AllRecords == {studyRooms[i] : i \in 1..Len(studyRooms)}
                \cup {rooms[i] : i \in 1..Len(rooms)}

NoBuildingError == \A k \in 1..Len(stats.errors) : stats.errors[k].op # "building"

BuildingRowNames == {b.name : b \in ThisRun(db.building)}

C4_BuildingSet ==
  AtEnd /\ Done("createBuildings") /\ NoBuildingError =>
    /\ BuildingRowNames =
         {normalizeBuildingName(r.building) : r \in {x \in AllRecords : x.building # ""}}
    /\ Cardinality(ThisRun(db.building)) = Cardinality(BuildingRowNames)
    /\ db.building = ThisRun(db.building)

\* C4 as stated: the names of all records
C4_Original ==
  AtEnd /\ Done("createBuildings") /\ NoBuildingError =>
    /\ BuildingRowNames = {normalizeBuildingName(r.building) : r \in AllRecords}
    /\ Cardinality(ThisRun(db.building)) = Cardinality(BuildingRowNames)

\* an alias and its canonical name, in the two files, give one Building
C4_Witness ==
  /\ AtEnd /\ Done("createBuildings") /\ NoBuildingError
  /\ Len(studyRooms) = 2 /\ Len(rooms) = 1
  /\ studyRooms[1].building = "Peters"
  /\ studyRooms[2].building = "Peters"
  /\ rooms[1].building = "Peters Building"
  /\ BuildingRowNames = {"Peters Building"}

C6_Original ==
  pc = "exited" /\ fatal \in {"createBuildings", "migrateStudySpots",
                              "migrateLectureHalls", "processPhotos"}
    => exitCode = 1 /\ db = db0

\* C7 (as amended): when the photo stage has ended, every record has as many
\* Photo rows as it has images that were downloaded, transcoded, uploaded and
\* then recorded: the uploaded images less those whose insert failed.
ImagesWith(ds, rec, outcomes) ==
  {x \in imageLog : x.ds = ds /\ x.rec = rec /\ x.outcome \in outcomes}

PhotoStageEnded == AtEnd /\ (Done("processPhotos") \/ fatal = "processPhotos")

C7_PhotoCount ==
  PhotoStageEnded =>
    \A ds \in {"study-rooms", "rooms"} :
      \A rec \in 1..(IF ds = "rooms" THEN Len(rooms) ELSE Len(studyRooms)) :
        Cardinality(RowsOf("photo", ds, rec)) =
          Cardinality(ImagesWith(ds, rec, {"ok", "record"}))
            - Cardinality(ImagesWith(ds, rec, {"record"}))

\* C7 as stated: as many rows as uploaded images
C7_Original ==
  PhotoStageEnded =>
    \A ds \in {"study-rooms", "rooms"} :
      \A rec \in 1..(IF ds = "rooms" THEN Len(rooms) ELSE Len(studyRooms)) :
        Cardinality(RowsOf("photo", ds, rec)) =
          Cardinality(ImagesWith(ds, rec, {"ok", "record"}))

\* one image stored and recorded, one uploaded whose insert failed
C7_Witness ==
  /\ AtEnd /\ Done("processPhotos")
  /\ \E rec \in 1..Len(studyRooms) :
       /\ Cardinality(RowsOf("photo", "study-rooms", rec)) = 1
       /\ Cardinality(ImagesWith("study-rooms", rec, {"ok", "record"})) = 2

\* C8: every Photo row has exactly one of its two owner columns set.
C8_OneOwner ==
  \A p \in db.photo : (p.studySpotId # NULL) # (p.lectureHallId # NULL)

C8_Witness ==
  /\ \E p \in ThisRun(db.photo) : p.studySpotId # NULL
  /\ \E p \in ThisRun(db.photo) : p.lectureHallId # NULL

\* C9: while clearExistingData runs, and when it has failed part-way, the
\* tables emptied so far are the first ones of Photo, Spot, Hall, Building,
\* Organization, the others are untouched, and no row references a missing
\* row.
NoDangling(d) ==
  /\ \A p \in d.photo :
       /\ p.studySpotId # NULL => p.studySpotId \in Ids(d.studySpot)
       /\ p.lectureHallId # NULL => p.lectureHallId \in Ids(d.lectureHall)
  /\ \A s \in d.studySpot \cup d.lectureHall : s.buildingId \in Ids(d.building)
  /\ \A b \in d.building : b.universityId \in Ids(d.university)

Clearing == pc = "clearExistingData" \/ fatal = "clearExistingData"

C9_ClearOrderSafe ==
  Clearing =>
    /\ NoDangling(db)
    /\ \A k \in 1..5 :
         LET t == <<"photo", "studySpot", "lectureHall", "building",
                    "university">>[k]
         IN db[t] = IF k < clearIdx THEN {} ELSE db0[t]

\* the clearing failed at the Building table: the children are gone, the
\* Building and Organization rows are still there
C9_Witness ==
  /\ fatal = "clearExistingData" /\ clearIdx = 4
  /\ db0.photo # {} /\ db0.studySpot # {} /\ db0.lectureHall # {}
  /\ db.building # {} /\ db.studySpot = {}

\* C10: once the clearing has returned, every Spot and Hall row references
\* one Building row of the store, created earlier in this run, whose name is
\* the normalized building name of the row's source record.
BuildingOf(s, records) ==
  LET bs == {b \in db.building : b.id = s.buildingId}
  IN /\ Cardinality(bs) = 1
     /\ origin[s.id].run = run
     /\ \A b \in bs :
          /\ origin[b.id].run = run
          /\ b.id < s.id
          /\ b.name = normalizeBuildingName(records[origin[s.id].rec].building)

C10_BuildingReference ==
  Done("clearExistingData") =>
    /\ \A s \in db.studySpot : BuildingOf(s, studyRooms)
    /\ \A h \in db.lectureHall : BuildingOf(h, rooms)

C10_Witness ==
  /\ \E s \in db.studySpot :
       /\ origin[s.id].run = run
       /\ studyRooms[origin[s.id].rec].building = "Peters"
       /\ \E b \in db.building : b.id = s.buildingId /\ b.name = "Peters Building"
  /\ \E h \in db.lectureHall :
       /\ origin[h.id].run = run
       /\ rooms[origin[h.id].rec].building = "Peters Building"

\* C11 as stated: a call with a key of the table returns the value mapped to
\* it, a call with any other name returns the name.
Specified(name) ==
  IF name \in DOMAIN buildingNameMap THEN buildingNameMap[name] ELSE name

C11_Original ==
  \A i \in 1..Len(calls) : calls[i].result = Specified(calls[i].name)

\* C12: every Hall row created in this run from a record with a capability
\* block has each of its four flags true exactly when the record's value for
\* it is "yes"; and at the end of a run whose Hall loop has ended, a record
\* with a block whose building resolves has its Hall, or else one error, the
\* store's rejection of the insert: no capability value makes it fail.
FlagsAsSource(h, f) ==
  /\ h.hasAvInputs = (f.av_inputs = "yes")
  /\ h.hasPc = (f.pc = "yes")
  /\ h.hasWhiteboard = (f.whiteboard = "yes")
  /\ h.hasProjector = (f.projector = "yes")

C13_SpaceType ==
  \A s \in ThisRun(db.studySpot) :
    LET v == studyRooms[origin[s.id].rec].spaceType
    IN s.spaceType = IF v = Undefined \/ v = "" THEN JsNull ELSE v

\* C13 as stated: the source value whenever the field is present, null only
\* when it is missing
C13_Original ==
  \A s \in ThisRun(db.studySpot) :
    LET v == studyRooms[origin[s.id].rec].spaceType
    IN s.spaceType = IF v = Undefined THEN JsNull ELSE v

\* a Spot from a record with a tag and one from a record without the field
C13_Witness ==
  /\ \E s \in ThisRun(db.studySpot) :
       /\ studyRooms[origin[s.id].rec].spaceType = "quiet"
       /\ s.spaceType = "quiet"
  /\ \E s \in ThisRun(db.studySpot) :
       /\ studyRooms[origin[s.id].rec].spaceType = Undefined
       /\ s.spaceType = JsNull

\* C14 (as amended): the process exits with 1 exactly when the credential is
\* missing, a step of migrate() has thrown, or the release of the connection
\* in the finally block has failed, and with 0 otherwise; a run whose seven
\* steps have returned and whose connection was released exits with 0,
\* whatever the number of errors collected.
StepFailed == Len(started) > Len(finished)

C14_ExitCode ==
  pc = "exited" =>
    /\ exitCode \in {0, 1}
    /\ exitCode = 1 <=> (~supabaseKey \/ StepFailed \/ fatal = "disconnect")
    /\ StepFailed =>
         started[Len(started)] \in
           {"clearExistingData", "ensureStorageBucket", "createUniversity",
            "createBuildings", "migrateStudySpots", "migrateLectureHalls",
            "processPhotos"}
    /\ (Len(finished) = 7 /\ fatal # "disconnect") => exitCode = 0

\* C14 as stated, for a process that has its credential: exit code non-zero
\* exactly when a step of migrate() has thrown
C14_Original ==
  pc = "exited" /\ supabaseKey => (exitCode # 0 <=> StepFailed)

\* a complete run that collected an error and exits with 0
C14_Witness ==
  /\ pc = "exited" /\ exitCode = 0
  /\ Len(finished) = 7
  /\ Len(stats.errors) > 0

\* C15: a process without the credential never leaves module load except to
\* exit with 1: it begins no step, makes no external call, and the store and
\* the bucket are as they were.
C15_NoCredential ==
  ~supabaseKey =>
    /\ pc \in {"load", "exited"}
    /\ pc = "exited" => exitCode = 1
    /\ started = << >> /\ log = << >> /\ disconnects = 0
    /\ db = db0 /\ db = PreExisting /\ nextId = FirstFreeId
    /\ objects = PreExistingObjects /\ imageLog = {}

C15_Witness ==
  /\ ~supabaseKey /\ pc = "exited" /\ exitCode = 1
  /\ db.photo # {} /\ db.university # {}

\* C16: in the loop of createBuildings, and at the end of a run in which
\* createBuildings returned, every name attempted so far either has its one
\* Building row, its entry in buildingMap with the row's id, and no error,
\* or has no row, no entry, and exactly one error; when createBuildings has
\* returned, every name of buildingNames was attempted.
BuildingSettled(k) ==
  LET name == buildingNames[k]
      rows == {b \in ThisRun(db.building) : b.name = name}
      errs == ErrorsOf("building", k)
  IN \/ /\ name \in DOMAIN buildingMap
        /\ Cardinality(rows) = 1
        /\ \A b \in rows : buildingMap[name] = b.id
        /\ errs = {}
     \/ /\ name \notin DOMAIN buildingMap
        /\ rows = {}
        /\ Cardinality(errs) = 1

C16_BuildingFailure ==
  \/ pc = "createBuildings" /\ at = "loop"
  \/ AtEnd /\ Done("createBuildings")
  =>
    /\ Done("createBuildings") => bi = Len(buildingNames) + 1
    /\ \A k \in 1..(bi - 1) : BuildingSettled(k)
    /\ \A k \in bi..Len(buildingNames) :
         buildingNames[k] \notin DOMAIN buildingMap
    /\ DOMAIN buildingMap \subseteq
         {buildingNames[k] : k \in 1..Len(buildingNames)}

\* the first of two names has failed, the second was created after it
C16_Witness ==
  /\ Done("createBuildings")
  /\ Len(buildingNames) = 2
  /\ Cardinality(ErrorsOf("building", 1)) = 1
  /\ buildingNames[1] \notin DOMAIN buildingMap
  /\ buildingNames[2] \in DOMAIN buildingMap
  /\ Len(stats.errors) = 1

\* C19: prisma.$disconnect() is called only on the step that takes the
\* process from the finally block to its exit, and only when it was not
\* called before; every process that entered migrate() has called it once
\* when it exits, whether the steps returned or one threw; the store does
\* not change once it was called.
C19_ReleasedOnce ==
  [][/\ disconnects' # disconnects =>
          /\ pc = "finally" /\ pc' = "exited"
          /\ disconnects = 0 /\ disconnects' = 1
          /\ db' = db
     /\ pc' = "exited" =>
          disconnects' = IF supabaseKey THEN 1 ELSE 0
     /\ disconnects > 0 => db' = db]_vars

\* a run that ended on an unreadable file has released the connection
C19_Witness ==
  /\ pc = "exited" /\ fatal = "migrateStudySpots"
  /\ disconnects = 1
  /\ db.building # {}

\* C20: every item has at most one attempt behind it, an attempt leaving
\* either the item's row or the item's error: no name occurs twice in
\* buildingNames, and every building name, every record and every image has
\* at most one row or error to its name, and every image one log entry.
AttemptsOf(t, ds, op, rec) ==
  Cardinality(RowsOf(t, ds, rec)) + Cardinality(ErrorsOf(op, rec))

ImageAttemptsOf(ds, op, rec, img) ==
  Cardinality({p \in RowsOf("photo", ds, rec) : origin[p.id].img = img})
    + Cardinality(ErrorsOfImage(op, rec, img))

ImagesOnce(ds, op, records) ==
  \A rec \in 1..Len(records) :
    \A img \in 0..(records[rec].images - 1) :
      /\ ImageAttemptsOf(ds, op, rec, img) <= 1
      /\ Cardinality({x \in imageLog : x.ds = ds /\ x.rec = rec
                                        /\ x.img = img})
           = ImageAttemptsOf(ds, op, rec, img)

C20_NoRetry ==
  /\ \A i, j \in 1..Len(buildingNames) :
       buildingNames[i] = buildingNames[j] => i = j
  /\ \A k \in 1..Len(buildingNames) :
       AttemptsOf("building", "building", "building", k) <= 1
  /\ \A rec \in 1..Len(studyRooms) :
       AttemptsOf("studySpot", "study-rooms", "studySpot", rec) <= 1
  /\ \A rec \in 1..Len(rooms) :
       AttemptsOf("lectureHall", "rooms", "lectureHall", rec) <= 1
  /\ ImagesOnce("study-rooms", "studySpotPhoto", studyRooms)
  /\ ImagesOnce("rooms", "lectureHallPhoto", rooms)

\* an image whose download failed is passed by: the run is complete and the
\* image has its one error
C20_Witness ==
  /\ pc = "exited" /\ Len(finished) = 7
  /\ \E x \in imageLog :
       /\ x.outcome = "download"
       /\ x.ds = "rooms"
       /\ ImageAttemptsOf("rooms", "lectureHallPhoto", x.rec, x.img) = 1

\* C17 as stated: every document that getCollectionData has returned has
\* the store identifier of its source document in its id field.
C17_Original ==
  exportPc \in {"saveToJson", "done"} =>
    /\ Len(fetched) = Len(collection)
    /\ \A i \in 1..Len(fetched) : fetched[i]["id"] = collection[i].docId

\* C18: when exportCollectionToJson has returned, the directory and the file
\* exist, the file holds the JSON text of the array of the documents fetched
\* from the collection and nothing else, and reading it back gives that
\* array; for an empty collection the text is the empty array.
C18_FileWritten ==
  exportPc = "done" =>
    /\ fs.dir /\ fs.exists
    /\ fetched = [i \in 1..Len(collection) |-> Flattened(collection[i])]
    /\ fs.content = JsonStringify(fetched)
    /\ JsonParse(fs.content) = fetched
    /\ collection = << >> =>
         fs.content = <<Token("[", "", ""), Token("]", "", "")>>

\* two documents were written over the file of an earlier, larger export
C18_Witness ==
  /\ exportPc = "done"
  /\ fs0.exists /\ fs0.content = StaleContent
  /\ Len(collection) = 2
  /\ Len(fs.content) < Len(StaleContent)

\* C21 as stated: every Photo row that this run created from an image of
\* record rec of a file has as its owner the Spot (Hall) that this run
\* created from record rec of the same file, and that entity's identifier
\* in its storage path.
PhotoOwnerId(p) ==
  IF origin[p.id].ds = "study-rooms" THEN p.studySpotId ELSE p.lectureHallId

OwnRecord(p) ==
  LET owner == PhotoOwnerId(p)
  IN /\ owner # NULL
     /\ origin[owner].run = run
     /\ origin[owner].ds = origin[p.id].ds
     /\ origin[owner].rec = origin[p.id].rec
     /\ p.storagePath.entityId = owner

C21_Original == \A p \in ThisRun(db.photo) : OwnRecord(p)

\* C22: in every reachable state the object of every Photo row is in
\* storage, and every Photo row that the current run inserted is the row of
\* an image whose upload succeeded earlier in this run: the image's pass
\* through download, transcode, upload, record has got past the upload, and
\* the row's path and URL are those of the object that the upload wrote.
UploadedPath(x) ==
  IF x.ds = "study-rooms"
    THEN StudySpotsPath(universityId,
                        MapGet(studySpotMap, studyRooms[x.rec].id), x.img)
    ELSE LectureHallsPath(universityId,
                          MapGet(lectureHallMap, rooms[x.rec].id), x.img)

\* the images of this run whose upload has returned
Uploads == {x \in imageLog : x.outcome \notin {"download", "optimize", "upload"}}

C22_UploadBeforeRow ==
  /\ \A p \in db.photo : p.storagePath \in objects
  /\ \A x \in Uploads : UploadedPath(x) \in objects
  /\ \A p \in ThisRun(db.photo) :
       \E x \in Uploads :
         /\ x.ds = origin[p.id].ds /\ x.rec = origin[p.id].rec
         /\ x.img = origin[p.id].img
         /\ p.storagePath = UploadedPath(x)
         /\ p.url = PublicUrl(UploadedPath(x))

\* in the second run one image was recorded and the insert of another
\* failed after its upload: the object of the second is there without a row
C22_Witness ==
  /\ run = 2 /\ pc = "exited"
  /\ ThisRun(db.photo) # {}
  /\ \E x \in imageLog :
       /\ x.outcome = "record"
       /\ RowsOf("photo", x.ds, x.rec) # {}
       /\ Cardinality(objects) > Cardinality(db.photo)

\* C23 as stated: for every record whose Spot (Hall) creation failed, the
\* photo stage processes none of its images (no download, no upload, no
\* Photo row) and appends no error for them, and the record has exactly one
\* error, the one of its creation.
PhotoStageIdle(ds, entityOp, photoOp, rec) ==
  Cardinality(ErrorsOf(entityOp, rec)) > 0 =>
    /\ \A x \in imageLog : ~(x.ds = ds /\ x.rec = rec)
    /\ RowsOf("photo", ds, rec) = {}
    /\ ErrorsOf(photoOp, rec) = {}
    /\ Cardinality(ErrorsOf(entityOp, rec)) = 1

C23_Original ==
  /\ \A rec \in 1..Len(studyRooms) :
       PhotoStageIdle("study-rooms", "studySpot", "studySpotPhoto", rec)
  /\ \A rec \in 1..Len(rooms) :
       PhotoStageIdle("rooms", "lectureHall", "lectureHallPhoto", rec)

====
